---------------------------- MODULE Spec2Model ----------------------------
(***************************************************************************)
(* productcatalogservice: the Source Router (shouldUseDatabase), the       *)
(* Snapshot Cache (productCatalog.catalog, parseCatalog) and the list,     *)
(* get-by-id and keyword-search handlers with their Record Store paths.    *)
(*                                                                         *)
(* One gRPC request is followed statement by statement (pc); the Record    *)
(* Store changing under it, the reload flag being switched and another     *)
(* request's goroutine rebuilding the shared catalog are environment       *)
(* actions that interleave with it.                                        *)
(***************************************************************************)
EXTENDS Integers, Sequences, FiniteSets, TLC

(***************************************************************************)
(* Strings are sequences of one-character strings, so that strings.ToLower *)
(* and strings.Contains are computed and not assumed.                      *)
(***************************************************************************)
LowerOf == [c \in {"a", "b", "c", "d", "x", "y", "e", ",", "A", "B", "C", "D", "X", "Y"} |->
              CASE c = "A" -> "a" [] c = "B" -> "b" [] c = "C" -> "c"
                [] c = "D" -> "d" [] c = "X" -> "x" [] c = "Y" -> "y"
                [] OTHER -> c]

ToLower(s) == [k \in 1..Len(s) |-> LowerOf[s[k]]]

Contains(s, sub) ==
    \E k \in 0..(Len(s) - Len(sub)) : SubSeq(s, k + 1, k + Len(sub)) = sub

(***************************************************************************)
(* The product universe: the rows the Record Store may hold, by id.  Of    *)
(* the four rows a run uses the first MaxId.                               *)
(***************************************************************************)
MaxId == 2

Ids == 1..MaxId

ProductOf ==
    [id \in 1..4 |->
        CASE id = 1 -> [Id |-> 1, Name |-> <<"A", "b">>, Description |-> <<"c">>,
                        Categories |-> << <<"x", "y">> >>]
          [] id = 2 -> [Id |-> 2, Name |-> <<"d">>, Description |-> <<"a", "B">>,
                        Categories |-> << <<"c">>, <<"x">> >>]
          [] id = 3 -> [Id |-> 3, Name |-> <<"D", "c">>, Description |-> <<>>,
                        Categories |-> << <<"a", "b">> >>]
          [] id = 4 -> [Id |-> 4, Name |-> <<"e">>, Description |-> <<"x", "A">>,
                        Categories |-> << <<"d">> >>]]

\* The ids a GetProduct request may ask for: one more than the universe holds.
RequestIds == 1..(MaxId + 1)

Queries == { <<>>, <<"a">>, <<"A", "B">>, <<"C">>, <<"x">>, <<"Y">>, <<"b", "a">>, <<"e">> }

\* The values the request context may carry for the use-database key:
\* NoMetadata is a context without incoming metadata, <<>> one without the key.
NoMetadata == <<"-">>
Directives == { NoMetadata, <<>>, <<"true">>, <<"false">>, <<"True">>,
                <<"true", "false">>, <<"false", "true">> }

\* Those whose first value is the explicit use-durable-store directive.
ExplicitDirectives == { <<"true">>, <<"true", "false">> }

Min(a, b) == IF a < b THEN a ELSE b

\* The rows of the store in the order a scan returns them (by id).
RECURSIVE StoreScan(_)
StoreScan(S) ==
    IF S = {} THEN <<>>
    ELSE LET m == CHOOSE x \in S : \A y \in S : x <= y
         IN <<m>> \o StoreScan(S \ {m})

\* products.json, the flat file loadCatalog reads when no store is configured.
LocalFile == StoreScan(Ids)

(***************************************************************************)
(* The catalog importer: its inputs and its table.                         *)
(***************************************************************************)
MaxIngestId == 3
MaxTarget == 4
MaxBaseCap == 2
MaxFeed == 3
Workers == 2

\* --cap-relax-start, --cap-relax-factor and --cap-relax-final, in hundredths.
RelaxStartPct == 50
RelaxFactorPct == 150
RelaxFinalPct == 90

IngestIds == 1..MaxIngestId
Cats == {"shirts", "shoes"}
Revs == {"old", "new"}

\* One entry of the input file: its derived id, its category and whether it
\* has title, description, price and primary image.
Candidates == [id : IngestIds, cat : Cats, valid : BOOLEAN]

\* The row a candidate is written as: the content the input file has now,
\* as against the content a row of an earlier run was written with.
RowOf(c) == [id |-> c.id, rev |-> "new"]

StoredIds(t) == { r.id : r \in t }

\* The tables an earlier run can have left: one row per id, its content
\* the one of that time.
Tables == { { [id |-> k, rev |-> "old"] : k \in S } : S \in SUBSET IngestIds }

\* Faulty variant: INSERT without the ON CONFLICT clause; the primary key
\* turns the second insert of an id into an error.
Upsert_insertOnly(t, r) ==
    IF r.id \in StoredIds(t)
    THEN [rows |-> t, err |-> TRUE]
    ELSE [rows |-> t \cup {r}, err |-> FALSE]

\* INSERT ... ON CONFLICT (id) DO UPDATE SET ...: the row with the id is
\* replaced, or the record is added.
Upsert(t, r) ==
    [rows |-> { x \in t : x.id # r.id } \cup {r}, err |-> FALSE]

CeilDiv(a, b) == (a + b - 1) \div b


(***************************************************************************)
(* State.                                                                  *)
(*   selective, alloydb  the environment: ENABLE_SELECTIVE_ROUTING=="true" *)
(*                       and ALLOYDB_CLUSTER_NAME != ""                    *)
(*   reloadCatalog       the package-level reload flag parseCatalog reads  *)
(*   store               the ids of the rows the Record Store holds        *)
(*   catalog             p.catalog.Products, the cached snapshot (ids)     *)
(*   loading             <<>>, or <<s>> while another goroutine's          *)
(*                       loadCatalog(&p.catalog) is writing s              *)
(*   built               a load into p.catalog has succeeded               *)
(*   pc, req, i, resp    the followed request: position, inputs and        *)
(*                       routing decision, loop index, response            *)
(*   hist                what the followed request has done so far: the    *)
(*                       store read failed (transport) or found no row,    *)
(*                       the id was cached at that moment, the last        *)
(*                       parseCatalog call loaded and that load failed     *)
(***************************************************************************)
VARIABLES selective, alloydb, reloadCatalog, store, catalog, loading, built,
          pc, req, i, resp, hist

catalogVars == <<selective, alloydb, reloadCatalog, store, catalog, loading, built,
                 pc, req, i, resp, hist>>

(***************************************************************************)
(* State of one run of the catalog importer (tools/import_products.py).    *)
(*   phase      "off" (no run), "running" or "exited"                      *)
(*   target     --sample-size, the number of new rows the run is to insert *)
(*   baseCap    --max-per-category                                         *)
(*   left       the entries of the input file not read yet                 *)
(*   rows       the table catalog_items: records [id, rev], rev standing   *)
(*              for the content of the row                                 *)
(*   seen       the ids met in this run                                    *)
(*   accepted   candidates whose row this run has upserted (acceptedCount) *)
(*   perCat     the same per category (CategoryQuota.accepted)             *)
(*   deferred   valid, new candidates turned away by a cap                 *)
(*   rejected   candidates that failed validation or whose image upload    *)
(*              failed                                                     *)
(*   inflight   candidates that passed the caps and whose image upload,    *)
(*              embedding and upsert are in progress in the worker pool;   *)
(*              they hold a place under the caps and under the target      *)
(*   cancelled  the run has been cancelled from outside                    *)
(*   exit       "none", or how the run ended: "ok", "warning", "error"     *)
(***************************************************************************)
VARIABLES phase, target, baseCap, left, rows, seen, accepted, perCat,
          deferred, rejected, inflight, cancelled, exit

ingestVars == <<phase, target, baseCap, left, rows, seen, accepted, perCat,
                deferred, rejected, inflight, cancelled, exit>>

(***************************************************************************)
(* The price of the candidate the importer is mapping:                     *)
(*   inr        the parsed source amount, in rupees: whole part and the    *)
(*              digits after the decimal point                             *)
(*   priceUsd   NoPrice, or the units and nanos made of it                 *)
(***************************************************************************)
VARIABLES inr, priceUsd

priceVars == <<inr, priceUsd>>

(***************************************************************************)
(* The frontend and the agents gateway:                                    *)
(*   useAgentsGateway, migrationPercent, adkAppName, reAppName             *)
(*                  the fields of the frontendServer, set at start         *)
(*   adkSessions    fe.adkSessions: cache key -> ADK session id            *)
(*   posts          session-creation requests sent, by user and app        *)
(*   sessions       the sessions the gateway has answered it created       *)
(*   nextId         the next session id the gateway issues                 *)
(*   hs             the handler goroutines: where each one is, its request *)
(*                  and its locals                                         *)
(***************************************************************************)
VARIABLES useAgentsGateway, migrationPercent, adkAppName, reAppName,
          adkSessions, posts, sessions, nextId, hs

frontVars == <<useAgentsGateway, migrationPercent, adkAppName, reAppName,
               adkSessions, posts, sessions, nextId, hs>>

vars == <<catalogVars, ingestVars, priceVars, frontVars>>

\* What the service leaves alone, and what the importer leaves alone.
notCatalog == <<ingestVars, priceVars, frontVars>>
notIngest == <<catalogVars, priceVars, frontVars>>

envVars == <<selective, alloydb>>
cacheVars == <<catalog, loading, built>>

NoReq == [op |-> "none", id |-> 0, query |-> <<>>, md |-> NoMetadata,
          asked |-> FALSE, useDb |-> FALSE]
NoResp == [code |-> "none", products |-> <<>>]
NoHist == [storeFailed |-> FALSE, storeAbsent |-> FALSE, inCache |-> FALSE,
           loaded |-> FALSE, loadFailed |-> FALSE]

(***************************************************************************)
(* shouldUseDatabase: the Source Router.                                   *)
(***************************************************************************)
\* Faulty variants of the router: the directive read before the feature
\* flag, and any value of the key accepted instead of the first.
shouldUseDatabase_directiveFirst(m) ==
    IF m # NoMetadata /\ Len(m) > 0 /\ m[1] = "true"
    THEN TRUE
    ELSE ~selective /\ alloydb

shouldUseDatabase_anyValue(m) ==
    IF ~selective
    THEN alloydb
    ELSE m # NoMetadata /\ \E k \in 1..Len(m) : m[k] = "true"

shouldUseDatabase(m) ==
    IF ~selective
    THEN alloydb
    ELSE m # NoMetadata /\ Len(m) > 0 /\ m[1] = "true"

(***************************************************************************)
(* The substring test of searchProductsFromCache / FromDatabase and the    *)
(* filter loop around it.                                                  *)
(***************************************************************************)
matchesQuery(id, query) ==
    \/ Contains(ToLower(ProductOf[id].Name), ToLower(query))
    \/ Contains(ToLower(ProductOf[id].Description), ToLower(query))

searchProducts(products, query) ==
    SelectSeq(products, LAMBDA id : matchesQuery(id, query))

(***************************************************************************)
(* loadCatalog(c): fills c from the Record Store when one is configured,   *)
(* from products.json otherwise.  It either succeeds with the full list or *)
(* fails and leaves c alone.                                               *)
(***************************************************************************)
loadCatalog ==
    IF alloydb
    THEN {[ok |-> TRUE, products |-> StoreScan(store)],
          [ok |-> FALSE, products |-> <<>>]}
    ELSE {[ok |-> TRUE, products |-> LocalFile]}

(***************************************************************************)
(* loadSingleProductFromAlloyDB(id): a transport failure (secret, dial,    *)
(* pool), a failed row.Scan because no row has the id, or the row.         *)
(***************************************************************************)
\* Faulty variant: the query has lost its WHERE clause and returns the first
\* row of the table whatever id was asked for.
loadSingleProductFromAlloyDB_anyRow(id) ==
    {[err |-> "transport", product |-> 0]} \cup
    (IF store # {} THEN {[err |-> "nil", product |-> StoreScan(store)[1]]}
                   ELSE {[err |-> "norows", product |-> 0]})

loadSingleProductFromAlloyDB(id) ==
    {[err |-> "transport", product |-> 0]} \cup
    (IF id \in store THEN {[err |-> "nil", product |-> id]}
                     ELSE {[err |-> "norows", product |-> 0]})

(***************************************************************************)
(* What an unsynchronised read of p.catalog.Products may return while      *)
(* another goroutine is assigning it: the old slice, the new one, or a     *)
(* header torn between them (one's array with the other's length).         *)
(***************************************************************************)
InSeq(x, s) == \E k \in 1..Len(s) : s[k] = x

Clip(s, n) == SubSeq(s, 1, Min(n, Len(s)))

RacyViews(old, new) == {old, new, Clip(old, Len(new)), Clip(new, Len(old))}

CatalogViews == IF loading = <<>> THEN {catalog} ELSE RacyViews(catalog, loading[1])

(***************************************************************************)
(* parseCatalog: every way one call can go.  cat and ld are p.catalog and  *)
(* the other goroutine's write after the call, ret the slice returned.  A  *)
(* call that loads waits for the loader's mutex, so the other goroutine's  *)
(* write has landed before its own.                                        *)
(***************************************************************************)
parseCatalog ==
    UNION { IF reloadCatalog \/ Len(v1) = 0
            THEN { IF o.ok
                   THEN [cat |-> o.products, ld |-> <<>>, ret |-> o.products,
                         loaded |-> TRUE, failed |-> FALSE]
                   ELSE [cat |-> IF loading = <<>> THEN catalog ELSE loading[1],
                         ld |-> <<>>, ret |-> <<>>,
                         loaded |-> TRUE, failed |-> TRUE]
                   : o \in loadCatalog }
            ELSE { [cat |-> catalog, ld |-> loading, ret |-> v2,
                    loaded |-> FALSE, failed |-> FALSE]
                   : v2 \in CatalogViews }
            : v1 \in CatalogViews }

\* The bookkeeping of one parseCatalog call by the followed request.
Noted(o) ==
    [hist EXCEPT !.loaded = o.loaded, !.loadFailed = o.failed]

Cached(o) ==
    /\ catalog' = o.cat
    /\ loading' = o.ld
    /\ built' = (built \/ (o.loaded /\ ~o.failed) \/ (loading # <<>> /\ o.ld = <<>>))

\* No importer run: the state of the importer while the service is followed.
IngestOff ==
    /\ phase = "off"
    /\ target = 1
    /\ baseCap = 1
    /\ left = 0
    /\ rows = {}
    /\ seen = {}
    /\ accepted = 0
    /\ perCat = [c \in Cats |-> 0]
    /\ deferred = 0
    /\ rejected = 0
    /\ inflight = {}
    /\ cancelled = FALSE
    /\ exit = "none"

(***************************************************************************)
(* Amounts and prices.  An amount is kept as its whole part and the digits *)
(* after the decimal point, so that the division by the rate is exact.     *)
(***************************************************************************)
NoAmount == [whole |-> 0, frac |-> <<>>]
NoPrice == [units |-> -1, nanos |-> -1]

\* No candidate is being mapped.
PriceOff ==
    /\ inr = NoAmount
    /\ priceUsd = NoPrice

(***************************************************************************)
(* The frontend: its handler goroutines, the users (the value of the       *)
(* session cookie, which getOrCreateUserId returns as the user id), the    *)
(* apps of the gateway and the session ids.                                *)
(***************************************************************************)
Handlers == {"h1", "h2"}
Users == {<<"a">>, <<"b">>}
Apps == {"shopping_assistant_agent", "product_discovery_agent"}

\* fmt.Sprintf("%s::%s", userId, appName)
cacheKey(userId, appName) == <<userId, appName>>

CacheKeys == { cacheKey(u, a) : u \in Users, a \in Apps }

\* A session id: the empty string, one the gateway issued, or the browser's
\* session id of a user.
EmptyId == [by |-> "none", user |-> <<>>, n |-> 0]
GatewayId(n) == [by |-> "gateway", user |-> <<>>, n |-> n]
BrowserId(u) == [by |-> "browser", user |-> u, n |-> 0]

\* The unread bytes of a request body, and what the assistant was sent.
NoBody == <<>>
NotCalled == [called |-> FALSE, body |-> NoBody]

IdleHandler ==
    [pc |-> "idle", kind |-> "none", user |-> <<>>, body |-> NoBody, orig |-> NoBody,
     adk |-> EmptyId, fail |-> "none", legacy |-> NotCalled, written |-> 0]

\* The frontend is not followed.
FrontOff ==
    /\ useAgentsGateway = FALSE
    /\ migrationPercent = 0
    /\ adkAppName = "shopping_assistant_agent"
    /\ reAppName = "shopping_assistant_agent"
    /\ adkSessions = [k \in CacheKeys |-> EmptyId]
    /\ posts = [k \in CacheKeys |-> 0]
    /\ sessions = {}
    /\ nextId = 1
    /\ hs = [h \in Handlers |-> IdleHandler]

Init ==
    /\ selective \in BOOLEAN
    /\ alloydb \in BOOLEAN
    /\ reloadCatalog = FALSE
    /\ store \in (IF alloydb THEN SUBSET Ids ELSE {{}})
    /\ catalog = <<>>
    /\ loading = <<>>
    /\ built = FALSE
    /\ pc = "idle"
    /\ req = NoReq
    /\ i = 0
    /\ resp = NoResp
    /\ hist = NoHist
    /\ IngestOff
    /\ PriceOff
    /\ FrontOff


(***************************************************************************)
(* A request arrives: its operation, its argument and the use-database     *)
(* values of its context.                                                  *)
(***************************************************************************)
Receive ==
    /\ pc = "idle"
    /\ \E m \in Directives :
          LET r == [NoReq EXCEPT !.md = m, !.asked = (m \in ExplicitDirectives)]
          IN  \/ req' = [r EXCEPT !.op = "list"] /\ pc' = "ListProducts"
              \/ \E id \in RequestIds :
                    req' = [r EXCEPT !.op = "get", !.id = id] /\ pc' = "GetProduct"
              \/ \E q \in Queries :
                    req' = [r EXCEPT !.op = "search", !.query = q] /\ pc' = "SearchProducts"
    /\ i' = 1
    /\ resp' = NoResp
    /\ hist' = NoHist
    /\ UNCHANGED <<notCatalog, envVars, reloadCatalog, store, cacheVars>>

(***************************************************************************)
(* The three handlers: each asks the router and enters the store path or   *)
(* the cache path.  The context is not read again after the decision.      *)
(***************************************************************************)
Route(db, cache) ==
    /\ req' = [req EXCEPT !.useDb = shouldUseDatabase(req.md), !.md = NoMetadata]
    /\ pc' = IF shouldUseDatabase(req.md) THEN db ELSE cache
    /\ UNCHANGED <<notCatalog, envVars, reloadCatalog, store, cacheVars, i, resp, hist>>

ListProducts ==
    /\ pc = "ListProducts"
    /\ Route("getProductsFromDatabase", "getProductsFromCache")

GetProduct ==
    /\ pc = "GetProduct"
    /\ Route("getProductFromDatabase", "getProductFromCache")

SearchProducts ==
    /\ pc = "SearchProducts"
    /\ Route("searchProductsFromDatabase", "searchProductsFromCache")

Respond(code, products) ==
    /\ resp' = [code |-> code, products |-> products]
    /\ pc' = "done"

(***************************************************************************)
(* getProductsFromCache and getProductsFromDatabase.                       *)
(***************************************************************************)
getProductsFromCache ==
    /\ pc = "getProductsFromCache"
    /\ \E o \in parseCatalog :
          /\ Cached(o)
          /\ hist' = Noted(o)
          /\ Respond("OK", o.ret)
    /\ UNCHANGED <<notCatalog, envVars, reloadCatalog, store, req, i>>

\* Faulty variant: the fresh catalog is loaded into p.catalog instead of a
\* local: loadCatalog(&p.catalog).
getProductsFromDatabase_loadsIntoCache ==
    /\ pc = "getProductsFromDatabase"
    /\ \E o \in loadCatalog :
          IF o.ok
          THEN /\ Respond("OK", o.products)
               /\ hist' = hist
               /\ Cached([cat |-> o.products, ld |-> <<>>, loaded |-> TRUE,
                          failed |-> FALSE])
          ELSE /\ pc' = "getProductsFromCache"
               /\ hist' = [hist EXCEPT !.storeFailed = TRUE]
               /\ resp' = resp
               /\ UNCHANGED cacheVars
    /\ UNCHANGED <<notCatalog, envVars, reloadCatalog, store, req, i>>

\* Faulty variant: the failed load is returned to the caller instead of
\* falling back to the cache.
getProductsFromDatabase_surfacesError ==
    /\ pc = "getProductsFromDatabase"
    /\ \E o \in loadCatalog :
          IF o.ok
          THEN /\ Respond("OK", o.products)
               /\ hist' = hist
          ELSE /\ Respond("Unavailable", <<>>)
               /\ hist' = [hist EXCEPT !.storeFailed = TRUE]
    /\ UNCHANGED <<notCatalog, envVars, reloadCatalog, store, cacheVars, req, i>>

getProductsFromDatabase ==
    /\ pc = "getProductsFromDatabase"
    /\ \E o \in loadCatalog :
          IF o.ok
          THEN /\ Respond("OK", o.products)
               /\ hist' = hist
          ELSE /\ pc' = "getProductsFromCache"
               /\ hist' = [hist EXCEPT !.storeFailed = TRUE]
               /\ resp' = resp
    /\ UNCHANGED <<notCatalog, envVars, reloadCatalog, store, cacheVars, req, i>>

(***************************************************************************)
(* searchProductsFromCache and searchProductsFromDatabase.                 *)
(***************************************************************************)
searchProductsFromCache ==
    /\ pc = "searchProductsFromCache"
    /\ \E o \in parseCatalog :
          /\ Cached(o)
          /\ hist' = Noted(o)
          /\ Respond("OK", searchProducts(o.ret, req.query))
    /\ UNCHANGED <<notCatalog, envVars, reloadCatalog, store, req, i>>

searchProductsFromDatabase ==
    /\ pc = "searchProductsFromDatabase"
    /\ \E o \in loadCatalog :
          IF o.ok
          THEN /\ Respond("OK", searchProducts(o.products, req.query))
               /\ hist' = hist
          ELSE /\ pc' = "searchProductsFromCache"
               /\ hist' = [hist EXCEPT !.storeFailed = TRUE]
               /\ resp' = resp
    /\ UNCHANGED <<notCatalog, envVars, reloadCatalog, store, cacheVars, req, i>>

(***************************************************************************)
(* getProductFromCache: the loop calls parseCatalog for its bound, for     *)
(* the comparison and for the fetch; each call is one step.  i counts from *)
(* 1 where the code counts from 0.  Indexing past the slice panics.        *)
(***************************************************************************)
getProductFromCache ==
    /\ pc = "getProductFromCache"
    /\ \E o \in parseCatalog :
          /\ Cached(o)
          /\ hist' = Noted(o)
          /\ IF i <= Len(o.ret)
             THEN pc' = "getProductFromCache_cmp" /\ resp' = resp
             ELSE Respond("NotFound", <<>>)
    /\ UNCHANGED <<notCatalog, envVars, reloadCatalog, store, req, i>>

getProductFromCache_cmp ==
    /\ pc = "getProductFromCache_cmp"
    /\ \E o \in parseCatalog :
          /\ Cached(o)
          /\ hist' = Noted(o)
          /\ IF i > Len(o.ret)
             THEN Respond("Panic", <<>>) /\ i' = i
             ELSE IF req.id = ProductOf[o.ret[i]].Id
                  THEN pc' = "getProductFromCache_found" /\ resp' = resp /\ i' = i
                  ELSE pc' = "getProductFromCache" /\ resp' = resp /\ i' = i + 1
    /\ UNCHANGED <<notCatalog, envVars, reloadCatalog, store, req>>

getProductFromCache_found ==
    /\ pc = "getProductFromCache_found"
    /\ \E o \in parseCatalog :
          /\ Cached(o)
          /\ hist' = Noted(o)
          /\ IF i > Len(o.ret)
             THEN Respond("Panic", <<>>)
             ELSE Respond("OK", <<o.ret[i]>>)
    /\ UNCHANGED <<notCatalog, envVars, reloadCatalog, store, req, i>>

(***************************************************************************)
(* getProductFromDatabase.                                                 *)
(***************************************************************************)
getProductFromDatabase ==
    /\ pc = "getProductFromDatabase"
    /\ IF ~alloydb
       THEN /\ pc' = "getProductFromCache"
            /\ UNCHANGED <<resp, hist>>
       ELSE \E r \in loadSingleProductFromAlloyDB(req.id) :
               IF r.err # "nil"
               THEN /\ pc' = "getProductFromCache"
                    /\ hist' = [hist EXCEPT !.storeFailed = (r.err = "transport"),
                                            !.storeAbsent = (r.err = "norows"),
                                            !.inCache = InSeq(req.id, catalog)]
                    /\ resp' = resp
               ELSE /\ Respond("OK", <<r.product>>)
                    /\ hist' = hist
    /\ UNCHANGED <<notCatalog, envVars, reloadCatalog, store, cacheVars, req, i>>

(***************************************************************************)
(* The response is sent and the next request is taken.  A panic ends the   *)
(* process; the restarted process begins with an empty catalog.            *)
(***************************************************************************)
Finish ==
    /\ pc = "done"
    /\ pc' = "idle"
    /\ req' = NoReq
    /\ i' = 0
    /\ resp' = NoResp
    /\ hist' = NoHist
    /\ IF resp.code = "Panic"
       THEN catalog' = <<>> /\ loading' = <<>> /\ built' = FALSE /\ reloadCatalog' = FALSE
       ELSE UNCHANGED <<cacheVars, reloadCatalog>>
    /\ UNCHANGED <<notCatalog, envVars, store>>

(***************************************************************************)
(* The environment of the followed request.                                *)
(***************************************************************************)
\* Ingestion upserts a row into the Record Store.
StoreUpsert ==
    /\ alloydb
    /\ \E id \in Ids \ store : store' = store \cup {id}
    /\ UNCHANGED <<notCatalog, envVars, reloadCatalog, cacheVars, pc, req, i, resp, hist>>

\* A row leaves the Record Store, so that a snapshot taken earlier is stale.
StoreDelete ==
    /\ alloydb
    /\ \E id \in store : store' = store \ {id}
    /\ UNCHANGED <<notCatalog, envVars, reloadCatalog, cacheVars, pc, req, i, resp, hist>>

\* The reload condition is switched on or off.
SetReload ==
    /\ reloadCatalog' = ~reloadCatalog
    /\ UNCHANGED <<notCatalog, envVars, store, cacheVars, pc, req, i, resp, hist>>

\* Another request's parseCatalog finds the reload condition or an empty
\* catalog and starts loadCatalog(&p.catalog) while the followed request runs.
OtherLoadBegin ==
    /\ pc \notin {"idle", "done"}
    /\ loading = <<>>
    /\ reloadCatalog \/ Len(catalog) = 0
    /\ \E o \in loadCatalog : o.ok /\ loading' = <<o.products>>
    /\ UNCHANGED <<notCatalog, envVars, reloadCatalog, store, catalog, built, pc, req, i, resp, hist>>

\* ... and its write of p.catalog.Products completes.
OtherLoadEnd ==
    /\ loading # <<>>
    /\ catalog' = loading[1]
    /\ loading' = <<>>
    /\ built' = TRUE
    /\ UNCHANGED <<notCatalog, envVars, reloadCatalog, store, pc, req, i, resp, hist>>

Next ==
    \/ Receive
    \/ ListProducts
    \/ GetProduct
    \/ SearchProducts
    \/ getProductsFromCache
    \/ getProductsFromDatabase
    \/ searchProductsFromCache
    \/ searchProductsFromDatabase
    \/ getProductFromCache
    \/ getProductFromCache_cmp
    \/ getProductFromCache_found
    \/ getProductFromDatabase
    \/ Finish
    \/ StoreUpsert
    \/ StoreDelete
    \/ SetReload
    \/ OtherLoadBegin
    \/ OtherLoadEnd

Spec == Init /\ [][Next]_vars


(***************************************************************************)
(* One run of the importer.  The service is not followed meanwhile.        *)
(***************************************************************************)
CatalogOff ==
    /\ selective = FALSE
    /\ alloydb = FALSE
    /\ reloadCatalog = FALSE
    /\ store = {}
    /\ catalog = <<>>
    /\ loading = <<>>
    /\ built = FALSE
    /\ pc = "idle"
    /\ req = NoReq
    /\ i = 0
    /\ resp = NoResp
    /\ hist = NoHist

InitIngest ==
    /\ CatalogOff
    /\ PriceOff
    /\ FrontOff
    /\ phase = "running"
    /\ target \in 1..MaxTarget
    /\ baseCap \in 1..MaxBaseCap
    /\ left \in 0..MaxFeed
    /\ rows \in Tables
    /\ seen = {}
    /\ accepted = 0
    /\ perCat = [c \in Cats |-> 0]
    /\ deferred = 0
    /\ rejected = 0
    /\ inflight = {}
    /\ cancelled = FALSE
    /\ exit = "none"

\* Progress is accepted / target: stage A below relax_start, stage B from
\* relax_start to relax_final, stage C from relax_final on.
Stage ==
    IF accepted * 100 < RelaxStartPct * target THEN "A"
    ELSE IF accepted * 100 < RelaxFinalPct * target THEN "B"
    ELSE "C"

OverflowCap == CeilDiv(baseCap * RelaxFactorPct, 100)

\* The candidates of a category that are with a worker.
InFlight(cat) == Cardinality({ c \in inflight : c.cat = cat })

\* Faulty variants of the cap test: the cap itself is let through, and
\* only finished upserts are counted, not the candidates with a worker.
QuotaAllows_offByOne(cat) ==
    CASE Stage = "A" -> perCat[cat] + InFlight(cat) <= baseCap
      [] Stage = "B" -> perCat[cat] + InFlight(cat) <= OverflowCap
      [] OTHER -> TRUE

QuotaAllows_ignoresInFlight(cat) ==
    CASE Stage = "A" -> perCat[cat] < baseCap
      [] Stage = "B" -> perCat[cat] < OverflowCap
      [] OTHER -> TRUE

\* The cap test: the category's accepted candidates and those with a
\* worker are below the cap of the stage in force.
QuotaAllows(cat) ==
    CASE Stage = "A" -> perCat[cat] + InFlight(cat) < baseCap
      [] Stage = "B" -> perCat[cat] + InFlight(cat) < OverflowCap
      [] OTHER -> TRUE

\* Faulty variant: the lookup in the table is left out.
ExistsInDb_never(id) == FALSE

\* SELECT 1 FROM catalog_items WHERE id = $1
ExistsInDb(id) == id \in StoredIds(rows)

\* Faulty variant: the loop does not test the target.
CanRead_noTargetTest ==
    /\ phase = "running"
    /\ ~cancelled
    /\ left > 0
    /\ Cardinality(inflight) < Workers

\* The loop takes the next entry: the run is on, not cancelled, the input
\* is not exhausted, the accepted candidates and those with a worker do not
\* fill the target and a worker is free.
CanRead ==
    /\ phase = "running"
    /\ ~cancelled
    /\ left > 0
    /\ accepted + Cardinality(inflight) < target
    /\ Cardinality(inflight) < Workers

\* 1. The id was already met in this run.
SkipSeen ==
    /\ CanRead
    /\ \E c \in Candidates : c.id \in seen
    /\ left' = left - 1
    /\ UNCHANGED <<notIngest, phase, target, baseCap, rows, seen, accepted, perCat,
                   deferred, rejected, inflight, cancelled, exit>>

\* 2. The id is already in the table.
SkipStored ==
    /\ CanRead
    /\ \E c \in Candidates :
          /\ c.id \notin seen
          /\ ExistsInDb(c.id)
          /\ seen' = seen \cup {c.id}
    /\ left' = left - 1
    /\ UNCHANGED <<notIngest, phase, target, baseCap, rows, accepted, perCat,
                   deferred, rejected, inflight, cancelled, exit>>

\* Faulty variant: the candidate with a missing field is written all the
\* same, and counted.
Reject_writesRow ==
    /\ CanRead
    /\ \E c \in Candidates :
          /\ c.id \notin seen
          /\ ~ExistsInDb(c.id)
          /\ ~c.valid
          /\ seen' = seen \cup {c.id}
          /\ rows' = Upsert(rows, RowOf(c)).rows
          /\ perCat' = [perCat EXCEPT ![c.cat] = @ + 1]
    /\ left' = left - 1
    /\ accepted' = accepted + 1
    /\ rejected' = rejected + 1
    /\ UNCHANGED <<notIngest, phase, target, baseCap, deferred, inflight,
                   cancelled, exit>>

\* 3. A field is missing.
Reject ==
    /\ CanRead
    /\ \E c \in Candidates :
          /\ c.id \notin seen
          /\ ~ExistsInDb(c.id)
          /\ ~c.valid
          /\ seen' = seen \cup {c.id}
    /\ left' = left - 1
    /\ rejected' = rejected + 1
    /\ UNCHANGED <<notIngest, phase, target, baseCap, rows, accepted, perCat,
                   deferred, inflight, cancelled, exit>>

\* 4. The category is at its cap: the candidate is passed over.
Defer ==
    /\ CanRead
    /\ \E c \in Candidates :
          /\ c.id \notin seen
          /\ ~ExistsInDb(c.id)
          /\ c.valid
          /\ ~QuotaAllows(c.cat)
          /\ seen' = seen \cup {c.id}
    /\ left' = left - 1
    /\ deferred' = deferred + 1
    /\ UNCHANGED <<notIngest, phase, target, baseCap, rows, accepted, perCat,
                   rejected, inflight, cancelled, exit>>

\* 4. The cap leaves room: the candidate takes its place under the cap and
\* is handed to a worker, in one step of the loop.
Admit ==
    /\ CanRead
    /\ \E c \in Candidates :
          /\ c.id \notin seen
          /\ ~ExistsInDb(c.id)
          /\ c.valid
          /\ QuotaAllows(c.cat)
          /\ seen' = seen \cup {c.id}
          /\ inflight' = inflight \cup {c}
    /\ left' = left - 1
    /\ UNCHANGED <<notIngest, phase, target, baseCap, rows, accepted, perCat,
                   deferred, rejected, cancelled, exit>>

\* 5. The upload of the image fails: the candidate is rejected and gives
\* its place back.
UploadFails ==
    /\ phase = "running"
    /\ \E c \in inflight : inflight' = inflight \ {c}
    /\ rejected' = rejected + 1
    /\ UNCHANGED <<notIngest, phase, target, baseCap, left, rows, seen, accepted,
                   perCat, deferred, cancelled, exit>>

\* 5, 6. A worker has uploaded the image, computed the embeddings and
\* upserted the row: the candidate is accepted.
UpsertDone ==
    /\ phase = "running"
    /\ \E c \in inflight :
          LET u == Upsert(rows, RowOf(c))
          IN  /\ rows' = u.rows
              /\ exit' = IF u.err THEN "error" ELSE exit
              /\ inflight' = inflight \ {c}
              /\ perCat' = [perCat EXCEPT ![c.cat] = @ + 1]
    /\ accepted' = accepted + 1
    /\ UNCHANGED <<notIngest, phase, target, baseCap, left, seen, deferred,
                   rejected, cancelled>>

\* The run is cancelled from outside.
Cancel ==
    /\ phase = "running"
    /\ ~cancelled
    /\ cancelled' = TRUE
    /\ UNCHANGED <<notIngest, phase, target, baseCap, left, rows, seen, accepted,
                   perCat, deferred, rejected, inflight, exit>>

\* How the run reports its end: an error of an upsert, the under-fill
\* warning, or success.
ExitCode ==
    IF exit = "error" THEN "error"
    ELSE IF accepted < target THEN "warning" ELSE "ok"

\* Faulty variant: a cancelled run leaves without waiting for its workers.
MayExit_abandonsWorkers ==
    cancelled \/ (inflight = {} /\ (accepted = target \/ left = 0))

\* 7. The loop ends at the target or at the end of the input, or on
\* cancellation; the workers are waited for.
MayExit ==
    /\ inflight = {}
    /\ cancelled \/ accepted = target \/ left = 0

Exit ==
    /\ phase = "running"
    /\ MayExit
    /\ phase' = "exited"
    /\ exit' = ExitCode
    /\ UNCHANGED <<notIngest, target, baseCap, left, rows, seen, accepted, perCat,
                   deferred, rejected, inflight, cancelled>>

NextIngest ==
    \/ SkipSeen
    \/ SkipStored
    \/ Reject
    \/ Defer
    \/ Admit
    \/ UploadFails
    \/ UpsertDone
    \/ Cancel
    \/ Exit

SpecIngest == InitIngest /\ [][NextIngest]_vars

\* The loop and the workers keep running while they can.
SpecIngestFair ==
    /\ SpecIngest
    /\ WF_vars(SkipSeen \/ SkipStored \/ Reject \/ Defer \/ Admit)
    /\ WF_vars(UploadFails \/ UpsertDone)
    /\ WF_vars(Exit)


(***************************************************************************)
(* Properties.                                                             *)
(***************************************************************************)
HandlerPcs == {"ListProducts", "GetProduct", "SearchProducts"}
CachePcs == {"getProductsFromCache", "searchProductsFromCache", "getProductFromCache",
             "getProductFromCache_cmp", "getProductFromCache_found"}

\* The router has decided for the followed request.
Routed == pc \notin ({"idle"} \cup HandlerPcs)

\* The followed request makes one parseCatalog call in this step.
ParseStep == pc \in CachePcs /\ pc' # pc

\* C1: a forced-Store lookup of an id that is in the cached snapshot, whose
\* store read failed at the transport level, returns the cached product and
\* no error.
C1_TransportFailureReturnsCached ==
    (/\ pc = "done"
     /\ req.op = "get"
     /\ hist.storeFailed
     /\ hist.inCache
     /\ InSeq(req.id, catalog))
    => (resp.code = "OK" /\ resp.products = <<req.id>>)

\* C2: a forced-Store lookup to which the reachable store answered that no
\* row has the id, while the cached snapshot still held one, ends in
\* NotFound and never in the product taken from the stale snapshot (a
\* lookup that crashed on the way answers nothing).
C2_StoreMissPropagates ==
    (/\ pc = "done"
     /\ req.op = "get"
     /\ hist.storeAbsent
     /\ hist.inCache
     /\ resp.code # "Panic")
    => (resp.code = "NotFound")

\* What the cache path answers to a list or search request from snapshot s.
CacheAnswer(r, s) == IF r.op = "list" THEN s ELSE searchProducts(s, r.query)

\* C3: on the list and search paths a failed store load is never answered
\* with the failure: the request moves to the cache path, and its response
\* is OK with what the cache path answers to the same request.
C3_Step ==
    /\ (pc \in {"getProductsFromDatabase", "searchProductsFromDatabase"}
            /\ hist'.storeFailed)
       => (/\ pc' = (IF req.op = "list" THEN "getProductsFromCache"
                                        ELSE "searchProductsFromCache")
           /\ resp' = NoResp)
    /\ (ParseStep /\ req.op \in {"list", "search"} /\ hist.storeFailed)
       => (/\ pc' = "done"
           /\ resp'.code = "OK"
           /\ \E o \in parseCatalog :
                 catalog' = o.cat /\ resp'.products = CacheAnswer(req, o.ret))

C3_StoreFailureAnsweredFromCache == [][C3_Step]_vars

\* A search the router sent to the store, whose load failed, answered with
\* products from the cache.
C3_Witness ==
    /\ pc = "done"
    /\ req.op = "search" /\ req.useDb
    /\ hist.storeFailed
    /\ resp.code = "OK" /\ Len(resp.products) > 0

\* C4: with selective routing disabled the decision is "a store is
\* configured", whatever the request carries.
C4_DisabledRoutingFollowsConfiguration ==
    (Routed /\ ~selective) => (req.useDb = alloydb)

\* A request that carried the explicit directive and was still sent to the
\* cache, because routing is not selective and no store is configured.
C4_Witness ==
    /\ pc = "getProductFromCache"
    /\ ~selective /\ ~alloydb
    /\ req.asked /\ ~req.useDb

\* C5: with selective routing enabled the decision is Store exactly for the
\* requests whose first use-database value is "true".
C5_SelectiveRoutingFollowsDirective ==
    (Routed /\ selective) => (req.useDb <=> req.asked)

\* A request without the directive that went to the cache although a store
\* is configured.
C5_Witness ==
    /\ pc = "searchProductsFromCache"
    /\ selective /\ alloydb
    /\ ~req.asked /\ ~req.useDb


\* C6: a list request that reads the cache while another request rebuilds
\* the shared catalog is answered with the complete old snapshot or the
\* complete new one (its own or the other request's), never with a list
\* that is neither.
C6_ReaderSeesCompleteSnapshot ==
    [][(pc = "getProductsFromCache" /\ pc' = "done" /\ ~hist'.loadFailed)
        => resp'.products \in
             ({catalog, catalog'} \cup (IF loading = <<>> THEN {} ELSE {loading[1]}))]_vars

\* C7: with no rebuild by another request in flight, a parseCatalog call
\* loads when no snapshot was built yet; once one was built and while the
\* reload flag is off it loads nothing and leaves the snapshot as it is,
\* also when that snapshot holds zero products.
C7_GetRebuildsOnlyWithoutSnapshot ==
    [][(ParseStep /\ loading = <<>>)
        => (IF ~built
            THEN hist'.loaded
            ELSE (~reloadCatalog => (~hist'.loaded /\ catalog' = catalog)))]_vars

\* C8: once a non-empty snapshot is held, a parseCatalog call made for a
\* cache-path lookup or search reads nothing from the Record Store and does
\* not replace the snapshot the request is evaluated against.
C8_CachePathNeverReadsStore ==
    [][(ParseStep /\ req.op \in {"get", "search"} /\ built /\ Len(catalog) > 0
            /\ loading = <<>>)
        => (~(hist'.loaded /\ alloydb) /\ catalog' = catalog)]_vars

\* C9: when the store read failed, no snapshot is held and the rebuild load
\* failed too, the response is an error and not a successful (empty) result.
C9_NoSourceIsAnError ==
    (/\ pc = "done"
     /\ hist.storeFailed
     /\ hist.loadFailed
     /\ ~built /\ catalog = <<>>)
    => (resp.code # "OK")

\* The case-insensitive substring match over name, description and tags.
KeywordMatch(id, query) ==
    \/ Contains(ToLower(ProductOf[id].Name), ToLower(query))
    \/ Contains(ToLower(ProductOf[id].Description), ToLower(query))
    \/ \E k \in 1..Len(ProductOf[id].Categories) :
          Contains(ToLower(ProductOf[id].Categories[k]), ToLower(query))

\* C10: a search answers with exactly the products of the list it searched
\* (the fresh load on the store path, the parseCatalog result on the cache
\* path) whose name, description or one of whose category tags contains the
\* query, case-insensitively.
C10_KeywordMatchesNameDescriptionTags ==
    [][/\ (pc = "searchProductsFromDatabase" /\ pc' = "done")
          => \E o \in loadCatalog :
                /\ o.ok
                /\ resp'.products =
                     SelectSeq(o.products, LAMBDA id : KeywordMatch(id, req.query))
       /\ (pc = "searchProductsFromCache" /\ pc' = "done")
          => \E o \in parseCatalog :
                /\ catalog' = o.cat
                /\ resp'.products =
                     SelectSeq(o.ret, LAMBDA id : KeywordMatch(id, req.query))]_vars


(***************************************************************************)
(* The two paths of a lookup and of a search as whole calls, run with no   *)
(* other goroutine writing the catalog and with the Record Store either    *)
(* reachable for the whole call (up) or unreachable for the whole call.    *)
(* They are evaluated where the snapshot already equals what a load        *)
(* returns, so a load inside the call leaves the catalog as it is.         *)
(***************************************************************************)
Reachability == IF alloydb THEN BOOLEAN ELSE {TRUE}

\* What a successful load returns now.
Source == (CHOOSE o \in loadCatalog : o.ok).products

parseCatalogWhen(up) ==
    { o.ret : o \in { p \in parseCatalog : p.loaded => (p.failed = ~up) } }

RECURSIVE getProductFromCacheWhen(_, _, _)
getProductFromCacheWhen(id, k, up) ==
    UNION { IF k > Len(r1)
            THEN { [code |-> "NotFound", products |-> <<>>] }
            ELSE UNION { IF k > Len(r2)
                         THEN { [code |-> "Panic", products |-> <<>>] }
                         ELSE IF id = ProductOf[r2[k]].Id
                              THEN { IF k > Len(r3)
                                     THEN [code |-> "Panic", products |-> <<>>]
                                     ELSE [code |-> "OK", products |-> <<r3[k]>>]
                                     : r3 \in parseCatalogWhen(up) }
                              ELSE getProductFromCacheWhen(id, k + 1, up)
                         : r2 \in parseCatalogWhen(up) }
            : r1 \in parseCatalogWhen(up) }

getProductFromDatabaseWhen(id, up) ==
    IF ~alloydb
    THEN getProductFromCacheWhen(id, 1, up)
    ELSE UNION { IF r.err # "nil"
                 THEN getProductFromCacheWhen(id, 1, up)
                 ELSE { [code |-> "OK", products |-> <<r.product>>] }
                 : r \in { x \in loadSingleProductFromAlloyDB(id) :
                              (x.err = "transport") = ~up } }

searchProductsFromCacheWhen(query, up) ==
    { [code |-> "OK", products |-> searchProducts(r, query)]
      : r \in parseCatalogWhen(up) }

searchProductsFromDatabaseWhen(query, up) ==
    UNION { IF o.ok
            THEN { [code |-> "OK", products |-> searchProducts(o.products, query)] }
            ELSE searchProductsFromCacheWhen(query, up)
            : o \in { x \in loadCatalog : x.ok = up } }

\* The snapshot and the source hold the same products and nobody is writing.
SameProducts == loading = <<>> /\ catalog = Source

C12_CacheLookupReturnsAskedId ==
    [][(/\ pc = "getProductFromCache_found"
        /\ pc' = "done"
        /\ loading = <<>>
        /\ resp'.code = "OK")
       => (resp'.products = <<req.id>>)]_vars

ValidUniqueNew == accepted + deferred

\* C14: a run, not cancelled, over a feed that holds at least target valid,
\* unique, not yet stored candidates ends with acceptedCount = targetCount,
\* whatever the categories of the candidates.
C14_EnoughCandidatesReachTarget ==
    (phase = "exited" /\ ~cancelled /\ ValidUniqueNew >= target)
    => (accepted = target)

\* C15: every run over a finite feed ends; a run that was not cancelled
\* ends only with acceptedCount = targetCount or with the input exhausted;
\* acceptedCount never exceeds targetCount.
C15_RunEndsAtTargetOrExhaustion ==
    /\ [](accepted <= target)
    /\ []((phase = "exited" /\ ~cancelled) => (accepted = target \/ left = 0))
    /\ <>(phase = "exited")

\* A run has ended at its target with input left unread.
C15_Witness ==
    /\ phase = "exited"
    /\ ~cancelled
    /\ accepted = target
    /\ left > 0

\* C16: a run, not cancelled, over a feed with V valid, unique, new
\* candidates, V below the target, ends with exactly V accepted and with the
\* under-fill warning, neither with an error nor as a plain success.
C16_UnderfilledRunAcceptsAllValid ==
    (phase = "exited" /\ ~cancelled /\ ValidUniqueNew < target)
    => (accepted = ValidUniqueNew /\ exit = "warning")

\* C17: a candidate whose id is already stored or was met earlier in the run
\* is never admitted, so no id is accepted twice, and no step of a run
\* changes or removes a row that was already in the table.
C17_StoredAndSeenIdsAreSkipped ==
    [][/\ \A r \in rows : r \in rows'
       /\ \A c \in inflight' \ inflight :
             c.id \notin seen /\ c.id \notin StoredIds(rows)]_vars

\* A run has ended with new rows inserted and with a stored id it met and
\* passed over.
C17_Witness ==
    /\ phase = "exited"
    /\ accepted > 0
    /\ Cardinality(seen \cap StoredIds(rows)) > accepted

C19_UpsertIsIdempotent ==
    \A r \in [id : IngestIds, rev : Revs] :
       LET once == Upsert(rows, r)
           twice == Upsert(once.rows, r)
       IN  /\ ~once.err
           /\ ~twice.err
           /\ twice.rows = once.rows
           /\ r \in twice.rows
           /\ \A x, y \in twice.rows : x.id = y.id => x = y

\* The run has upserted a row next to a row of an earlier run.
C19_Witness ==
    /\ phase = "exited"
    /\ \E x, y \in rows : x.rev = "new" /\ y.rev = "old"

\* C20: once the run is cancelled no further candidate is read or admitted,
\* a candidate leaves the worker pool only with its row upserted (or
\* rejected, its upload having failed), the run does not exit while a
\* worker is busy, and the run exits.
C20_CancellationDrainsAndExits ==
    /\ [][cancelled
          => /\ left' = left
             /\ seen' = seen
             /\ inflight' \subseteq inflight
             /\ \A c \in inflight \ inflight' :
                   \/ RowOf(c) \in rows' /\ accepted' = accepted + 1
                   \/ rejected' = rejected + 1 /\ rows' = rows]_vars
    /\ [](phase = "exited" => inflight = {})
    /\ (cancelled ~> phase = "exited")

\* A run cancelled part of the way, with input left and the target not
\* reached, has exited with the row of every candidate it accepted in the
\* table.
C20_Witness ==
    /\ phase = "exited"
    /\ cancelled
    /\ left > 0
    /\ accepted > 0
    /\ accepted < target
    /\ Cardinality({ r \in rows : r.id \in seen /\ r.rev = "new" }) = accepted

\* C21: a step that rejects a candidate, for a missing field or for a failed
\* upload of its image, counts it as rejected, leaves acceptedCount, every
\* category's count and the table as they are, and leaves the run running.
C21_RejectionLeavesCountsAndTable ==
    [][(rejected' # rejected)
       => /\ rejected' = rejected + 1
          /\ accepted' = accepted
          /\ perCat' = perCat
          /\ deferred' = deferred
          /\ rows' = rows
          /\ phase' = "running"
          /\ exit' = exit]_vars

\* The run has rejected a candidate and accepted another, and goes on reading.
C21_Witness ==
    /\ phase = "running"
    /\ ~cancelled
    /\ rejected > 0
    /\ accepted > 0
    /\ left > 0
    /\ accepted + Cardinality(inflight) < target

(***************************************************************************)
(* The hybrid similarity query over catalog_items.  Embeddings are points  *)
(* on a line and the distance between two of them is their difference;     *)
(* product 3 has no image embedding.  Products 1 and 2 are the same        *)
(* article listed twice: same text, same image.                            *)
(***************************************************************************)
NoEmbedding == <<>>

TextEmbedding(id) == CASE id = 1 -> <<2>> [] id = 2 -> <<2>> [] id = 3 -> <<5>> [] OTHER -> <<1>>

ImageEmbedding(id) ==
    CASE id = 1 -> <<3>> [] id = 2 -> <<3>> [] id = 3 -> NoEmbedding [] OTHER -> <<5>>

\* The query vectors $1 (text) and $2 (image).
HybridQueries == { [text |-> <<t>>, image |-> <<m>>] : t \in {0, 2}, m \in {1, 3} }

\* a <=> b
Distance(a, b) == IF a[1] < b[1] THEN b[1] - a[1] ELSE a[1] - b[1]

\* The weights of the hybrid query, in tenths, and its LIMIT.
WText == 6
WImage == 4
Limit == 10

\* 0.6*(product_embedding <=> $1) + 0.4*(product_image_embedding <=> $2)
Score(id, q) ==
    WText * Distance(TextEmbedding(id), q.text)
    + WImage * Distance(ImageEmbedding(id), q.image)

\* The orders of a set of rows: every sequence that lists each row once.
Orders(S) ==
    { p \in [1..Cardinality(S) -> S] : \A k, l \in DOMAIN p : p[k] = p[l] => k = l }

\* SELECT id, name, ... AS score FROM catalog_items
\* WHERE product_image_embedding IS NOT NULL ORDER BY score ASC LIMIT 10:
\* every list the database may return; rows of equal score come in any order.
hybridSimilarity(S, q) ==
    LET rowsWithImage == { id \in S : ImageEmbedding(id) # NoEmbedding }
    IN  { Clip(p, Limit) :
            p \in { o \in Orders(rowsWithImage) :
                      \A k, l \in DOMAIN o :
                         k < l => Score(o[k], q) <= Score(o[l], q) } }

\* C22: the hybrid query lists its rows by ascending weighted score, rows of
\* equal score by id, so that one store and one pair of query vectors have
\* one result list.
C22_HybridOrderIsDetermined ==
    \A q \in HybridQueries :
       /\ Cardinality(hybridSimilarity(store, q)) = 1
       /\ \A r \in hybridSimilarity(store, q) :
             \A k, l \in DOMAIN r :
                k < l => \/ Score(r[k], q) < Score(r[l], q)
                         \/ Score(r[k], q) = Score(r[l], q) /\ r[k] < r[l]

(***************************************************************************)
(* The categories column of a row and the list the single-record read      *)
(* makes of it.                                                            *)
(***************************************************************************)
MaxColumn == 3

\* The strings the categories column may hold, the empty one included.
ColumnStrings ==
    UNION { [1..n -> {"a", "B", ","}] : n \in 0..MaxColumn }

\* The position of the first sep in s, 0 when there is none.
Index(s, sep) ==
    IF \E k \in 1..Len(s) : s[k] = sep
    THEN CHOOSE k \in 1..Len(s) : s[k] = sep /\ \A j \in 1..(k - 1) : s[j] # sep
    ELSE 0

\* strings.Split(s, sep) for a one-character sep: the pieces between the
\* separators, so one piece more than there are separators.
RECURSIVE Split(_, _)
Split(s, sep) ==
    IF Index(s, sep) = 0
    THEN <<s>>
    ELSE <<SubSeq(s, 1, Index(s, sep) - 1)>>
         \o Split(SubSeq(s, Index(s, sep) + 1, Len(s)), sep)

\* categories = strings.ToLower(categories)
\* product.Categories = strings.Split(categories, ",")
scanCategories(column) == Split(ToLower(column), ",")

\* C24: the categories of a product read from the Record Store by id are a
\* non-empty list of non-empty lowercase tags without repetition, whatever
\* string the row holds.
C24_LoadedCategoriesAreTags ==
    \A id \in store : \A column \in ColumnStrings :
       \A r \in { x \in loadSingleProductFromAlloyDB(id) : x.err = "nil" } :
          LET cats == scanCategories(column)
          IN  /\ r.product = id
              /\ Len(cats) > 0
              /\ \A k \in 1..Len(cats) : cats[k] # <<>> /\ cats[k] = ToLower(cats[k])
              /\ \A k, l \in 1..Len(cats) : cats[k] = cats[l] => k = l

\* C25: with reloadCatalog set, a lookup by id on the cache path ends, whatever
\* the Record Store did between its reads of the catalog, in the product whose
\* id was asked for or in NotFound, and never in an index past the end of the
\* catalog (no other goroutine is writing the catalog during the step).
C25_ReloadingLookupStaysInBounds ==
    [][(/\ pc \in {"getProductFromCache", "getProductFromCache_cmp",
                   "getProductFromCache_found"}
        /\ pc' = "done"
        /\ reloadCatalog
        /\ loading = <<>>)
       => (\/ resp'.code = "NotFound"
           \/ resp'.code = "OK" /\ resp'.products = <<req.id>>)]_vars

\* C26: a forced-Store list or search that the store answered leaves the
\* cached snapshot as it was, so that a read of the cache after it can go
\* exactly the ways a read before it could.
C26_StoreReadLeavesSnapshot ==
    [][(/\ pc \in {"getProductsFromDatabase", "searchProductsFromDatabase"}
        /\ pc' = "done"
        /\ resp'.code = "OK")
       => (/\ catalog' = catalog
           /\ loading' = loading
           /\ built' = built
           /\ parseCatalog' = parseCatalog)]_vars

\* A forced-Store list was answered from the store with a list that differs
\* from the snapshot, which is still held.
C26_Witness ==
    /\ pc = "done"
    /\ req.op = "list"
    /\ req.useDb
    /\ ~hist.storeFailed
    /\ ~hist.loaded
    /\ resp.code = "OK"
    /\ loading = <<>>
    /\ catalog # <<>>
    /\ resp.products # catalog
    /\ ~reloadCatalog
    /\ parseCatalog = {[cat |-> catalog, ld |-> <<>>, ret |-> catalog,
                        loaded |-> FALSE, failed |-> FALSE]}

(***************************************************************************)
(* Currency normalisation: usd = inr / 88, units = floor(usd),             *)
(* nanos = round((usd - units) * 1e9).  The quotient is computed digit by  *)
(* digit, as written long division; round is to nearest, halves to even.   *)
(***************************************************************************)
FxRate == 88
NanoDigits == 9
MaxFracDigits == 8

NanosPerUnit == 10 ^ NanoDigits

\* The amounts of the feed: a few whole parts, every run of up to
\* MaxFracDigits decimals of zeros and nines.
Amounts ==
    { [whole |-> w, frac |-> f] :
        w \in {0, 87, 88, 1299},
        f \in UNION { [1..n -> {0, 9}] : n \in 0..MaxFracDigits } }

\* The k-th decimal of an amount.
Decimal(a, k) == IF k <= Len(a.frac) THEN a.frac[k] ELSE 0

\* Decimals k..n of a / FxRate, given the remainder left before the k-th,
\* and the remainder left after the n-th.
RECURSIVE QuotientDecimals(_, _, _, _)
QuotientDecimals(a, rem, k, n) ==
    IF k > n
    THEN [digits |-> <<>>, rem |-> rem]
    ELSE LET cur == rem * 10 + Decimal(a, k)
             rest == QuotientDecimals(a, cur % FxRate, k + 1, n)
         IN  [digits |-> <<cur \div FxRate>> \o rest.digits, rem |-> rest.rem]

\* The number a run of decimals spells.
RECURSIVE ValueOf(_)
ValueOf(ds) ==
    IF ds = <<>> THEN 0 ELSE ValueOf(SubSeq(ds, 1, Len(ds) - 1)) * 10 + ds[Len(ds)]

\* round(x) for x = whole + 0.tenth... : to nearest, a half to the even side;
\* more says that something non-zero follows the tenth.
Round(whole, tenth, more) ==
    IF \/ tenth > 5
       \/ tenth = 5 /\ more
       \/ tenth = 5 /\ ~more /\ whole % 2 = 1
    THEN whole + 1
    ELSE whole

\* units and nanos of an amount in rupees.
normalizePrice(a) ==
    LET n == IF Len(a.frac) > NanoDigits THEN Len(a.frac) + 1 ELSE NanoDigits + 1
        q == QuotientDecimals(a, a.whole % FxRate, 1, n)
        more == q.rem # 0 \/ \E k \in (NanoDigits + 2)..n : q.digits[k] # 0
    IN  [units |-> a.whole \div FxRate,
         nanos |-> Round(ValueOf(SubSeq(q.digits, 1, NanoDigits)),
                         q.digits[NanoDigits + 1], more)]

\* The importer maps the price of one candidate.
NormalizePrice ==
    /\ priceUsd = NoPrice
    /\ priceUsd' = normalizePrice(inr)
    /\ UNCHANGED <<catalogVars, ingestVars, frontVars, inr>>

InitPrice ==
    /\ CatalogOff
    /\ IngestOff
    /\ FrontOff
    /\ inr \in Amounts
    /\ priceUsd = NoPrice

NextPrice == NormalizePrice

SpecPrice == InitPrice /\ [][NextPrice]_vars

\* C23: the price made of a non-negative amount has units = floor(amount /
\* rate), units and nanos are not negative, nanos is less than one whole unit,
\* and the pair is the one the same amount always gives.
C23_PriceIsUnitsAndFraction ==
    (priceUsd # NoPrice)
    => (/\ priceUsd.units * FxRate <= inr.whole
        /\ inr.whole < (priceUsd.units + 1) * FxRate
        /\ priceUsd.units >= 0
        /\ priceUsd.nanos >= 0
        /\ priceUsd.nanos < NanosPerUnit
        /\ priceUsd = normalizePrice(inr))

(***************************************************************************)
(* shouldUseAgentsGateway: the percentage rollout.  The 32-bit FNV-1a hash *)
(* of the session id is computed on its two 16-bit halves, so that every   *)
(* product stays within the integers at hand.                              *)
(***************************************************************************)
ByteOf == [c \in {"a", "b"} |-> IF c = "a" THEN 97 ELSE 98]

\* The session ids the rollout is asked about.
SessionIDs == { <<>>, <<"a">>, <<"b">>, <<"a", "b">>, <<"b", "a">>, <<"b", "b">> }

\* The offset basis 0x811C9DC5 and the prime 0x01000193 = 2^24 + 0x193.
FnvOffset32 == [hi |-> 33052, lo |-> 40389]
FnvPrime32 == [shift |-> 24, low |-> 403]

\* a XOR b on k bits.
RECURSIVE XorBits(_, _, _)
XorBits(a, b, k) ==
    IF k = 0
    THEN 0
    ELSE (((a % 2) + (b % 2)) % 2) + 2 * XorBits(a \div 2, b \div 2, k - 1)

\* hash ^= byte; hash *= prime, modulo 2^32.
FnvStep(h, byte) ==
    LET lo1 == (h.lo \div 256) * 256 + XorBits(h.lo % 256, byte, 8)
        low == lo1 * FnvPrime32.low
        shifted == (lo1 % (2 ^ (32 - FnvPrime32.shift))) * (2 ^ (FnvPrime32.shift - 16))
    IN  [hi |-> (h.hi * FnvPrime32.low + (low \div (2 ^ 16)) + shifted) % (2 ^ 16),
         lo |-> low % (2 ^ 16)]

\* hash := fnv.New32a(); hash.Write([]byte(s))
RECURSIVE Fnv32a(_)
Fnv32a(s) ==
    IF s = <<>>
    THEN FnvOffset32
    ELSE FnvStep(Fnv32a(SubSeq(s, 1, Len(s) - 1)), ByteOf[s[Len(s)]])

\* hash.Sum32() % 100
Sum32Mod100(h) == (((h.hi % 100) * ((2 ^ 16) % 100)) + (h.lo % 100)) % 100

shouldUseAgentsGateway(fe, sessionID) ==
    IF ~fe.useAgentsGateway
    THEN FALSE
    ELSE IF fe.migrationPercent > 0
         THEN Sum32Mod100(Fnv32a(sessionID)) < fe.migrationPercent
         ELSE TRUE

(***************************************************************************)
(* The chat and cart handlers of the frontend.  A request body is a stream *)
(* that can be read once; the bodies of the model are shorter than the     *)
(* buffer of a json.Decoder, which therefore reads them whole.             *)
(***************************************************************************)
\* The chat request bodies: a JSON object and something that is none.
ChatBodies == { <<"{\"message\":\"hi\"}">>, <<"hi">> }

\* json.NewDecoder(body).Decode(&req): whether it succeeds, and what is left
\* unread of the body.
Decode(body) ==
    [ok |-> body = <<"{\"message\":\"hi\"}">>, rest |-> NoBody]

\* The receiver of shouldUseAgentsGateway.
fe == [useAgentsGateway |-> useAgentsGateway, migrationPercent |-> migrationPercent]

\* The handler h moves on to record r.
Becomes(h, r) == hs' = [hs EXCEPT ![h] = r]

\* One more response written to the ResponseWriter of h.
Written(r) == [r EXCEPT !.written = r.written + 1, !.pc = "done"]

\* fe.legacyChatBotHandler(w, r); return -- after failure f.
FallBack(r, f) == [r EXCEPT !.fail = f, !.pc = "legacyChatBotHandler"]

\* The frontend state a handler step leaves alone when it only moves on.
FrontRest == <<useAgentsGateway, migrationPercent, adkAppName, reAppName,
               adkSessions, posts, sessions, nextId>>

\* A goroutine is started for a request: a chat request, an add-to-cart
\* that starts the background analysis, or a request of the enhanced chat
\* endpoint.  Every request has a goroutine of its own.
Arrive(h) ==
    /\ hs[h].pc = "idle"
    /\ \E u \in Users :
          \/ \E b \in ChatBodies :
                Becomes(h, [IdleHandler EXCEPT !.pc = "chatBotHandler", !.kind = "chat",
                                               !.user = u, !.body = b, !.orig = b])
          \/ \E b \in ChatBodies :
                Becomes(h, [IdleHandler EXCEPT !.pc = "enhancedChatBotHandler",
                                               !.kind = "enhanced",
                                               !.user = u, !.body = b, !.orig = b])
          \/ Becomes(h, [IdleHandler EXCEPT !.pc = "analyzeCartWithAgent",
                                            !.kind = "cart", !.user = u])
    /\ UNCHANGED <<catalogVars, ingestVars, priceVars, FrontRest>>

chatBotHandler(h) ==
    /\ hs[h].pc = "chatBotHandler"
    /\ Becomes(h, [hs[h] EXCEPT !.pc = IF shouldUseAgentsGateway(fe, hs[h].user)
                                        THEN "handleChatWithAgents"
                                        ELSE "legacyChatBotHandler"])
    /\ UNCHANGED <<catalogVars, ingestVars, priceVars, FrontRest>>

\* Parse request.
handleChatWithAgents(h) ==
    /\ hs[h].pc = "handleChatWithAgents"
    /\ LET d == Decode(hs[h].body)
           r == [hs[h] EXCEPT !.body = d.rest]
       IN  Becomes(h, IF d.ok THEN [r EXCEPT !.pc = "chat_lookup"]
                              ELSE FallBack(r, "decode request"))
    /\ UNCHANGED <<catalogVars, ingestVars, priceVars, FrontRest>>

\* cachedSessionId, ok := fe.adkSessions[cacheKey] under the read lock.
Lookup(h, appName, hit, miss) ==
    LET cached == adkSessions[cacheKey(hs[h].user, appName)]
    IN  /\ Becomes(h, IF cached # EmptyId
                      THEN [hs[h] EXCEPT !.adk = cached, !.pc = hit]
                      ELSE [hs[h] EXCEPT !.pc = miss])
        /\ UNCHANGED <<catalogVars, ingestVars, priceVars, FrontRest>>

chat_lookup(h) ==
    /\ hs[h].pc = "chat_lookup"
    /\ Lookup(h, adkAppName, "chat_run", "chat_post")

\* The gateway is sent a session-creation request for user and app and
\* answers it: the request fails, the answer is no JSON, the answer is JSON
\* without an id, or the session is created and its id returned.
Post(h, outcome) ==
    LET k == cacheKey(hs[h].user, adkAppName)
    IN  /\ posts' = [posts EXCEPT ![k] = posts[k] + 1]
        /\ IF outcome = "created"
           THEN /\ sessions' = sessions \cup
                       {[user |-> hs[h].user, app |-> adkAppName, id |-> GatewayId(nextId)]}
                /\ nextId' = nextId + 1
           ELSE UNCHANGED <<sessions, nextId>>
        /\ UNCHANGED <<catalogVars, ingestVars, priceVars, useAgentsGateway,
                       migrationPercent, adkAppName, reAppName, adkSessions>>

chat_post(h) ==
    /\ hs[h].pc = "chat_post"
    /\ \E outcome \in {"error", "garbled", "refused", "created"} :
          /\ Post(h, outcome)
          /\ Becomes(h, CASE outcome = "error" -> FallBack(hs[h], "create session")
                          [] outcome = "garbled" -> FallBack(hs[h], "parse session")
                          [] outcome = "refused" -> [hs[h] EXCEPT !.pc = "chat_run"]
                          [] OTHER -> [hs[h] EXCEPT !.adk = GatewayId(nextId),
                                                    !.pc = "chat_cache"])

\* fe.adkSessions[cacheKey] = id under the write lock.
Cache(h, appName, next) ==
    /\ adkSessions' = [adkSessions EXCEPT ![cacheKey(hs[h].user, appName)] = hs[h].adk]
    /\ Becomes(h, [hs[h] EXCEPT !.pc = next])
    /\ UNCHANGED <<catalogVars, ingestVars, priceVars, useAgentsGateway, migrationPercent,
                   adkAppName, reAppName, posts, sessions, nextId>>

chat_cache(h) ==
    /\ hs[h].pc = "chat_cache"
    /\ Cache(h, adkAppName, "chat_run")

\* The assistant request to /run: it fails, is answered with another status
\* than 200, with a body that cannot be read or decoded, or it succeeds and
\* the chat response is written.
chat_run(h) ==
    /\ hs[h].pc = "chat_run"
    /\ \/ \E f \in {"run request", "run status", "run read", "run decode"} :
             Becomes(h, FallBack(hs[h], f))
       \/ Becomes(h, Written(hs[h]))
    /\ UNCHANGED <<catalogVars, ingestVars, priceVars, FrontRest>>

\* The request is passed on to the shopping assistant with r.Body as its
\* body, and one response is written: the assistant's message or an error.
legacyChatBotHandler(h) ==
    /\ hs[h].pc = "legacyChatBotHandler"
    /\ Becomes(h, Written([hs[h] EXCEPT !.legacy = [called |-> TRUE, body |-> hs[h].body],
                                        !.body = NoBody]))
    /\ UNCHANGED <<catalogVars, ingestVars, priceVars, FrontRest>>

\* getCart, then the lookup of the ADK session.
analyzeCartWithAgent(h) ==
    /\ hs[h].pc = "analyzeCartWithAgent"
    /\ \/ /\ Becomes(h, [hs[h] EXCEPT !.pc = "done"])
          /\ UNCHANGED <<catalogVars, ingestVars, priceVars, FrontRest>>
       \/ Lookup(h, adkAppName, "done", "cart_post")

cart_post(h) ==
    /\ hs[h].pc = "cart_post"
    /\ \E outcome \in {"error", "garbled", "refused", "created"} :
          /\ Post(h, outcome)
          /\ Becomes(h, IF outcome = "created"
                        THEN [hs[h] EXCEPT !.adk = GatewayId(nextId), !.pc = "cart_cache"]
                        ELSE [hs[h] EXCEPT !.pc = "done"])

cart_cache(h) ==
    /\ hs[h].pc = "cart_cache"
    /\ Cache(h, adkAppName, "done")

\* Parse the request, then look the ADK session up under the key of
\* fe.reAppName.
enhancedChatBotHandler(h) ==
    /\ hs[h].pc = "enhancedChatBotHandler"
    /\ LET d == Decode(hs[h].body)
       IN  IF d.ok
           THEN /\ Becomes(h, [hs[h] EXCEPT !.body = d.rest, !.pc = "enhanced_lookup"])
                /\ UNCHANGED <<catalogVars, ingestVars, priceVars, FrontRest>>
           ELSE /\ Becomes(h, Written([hs[h] EXCEPT !.body = d.rest]))
                /\ UNCHANGED <<catalogVars, ingestVars, priceVars, FrontRest>>

enhanced_lookup(h) ==
    /\ hs[h].pc = "enhanced_lookup"
    /\ Lookup(h, reAppName, "enhanced_run", "enhanced_post")

\* POST .../apps/<adkAppName>/users/<userId>/sessions/<sessionId>: only a
\* failed request keeps the browser's session id out of the cache; the
\* status of the answer is not looked at.
enhanced_post(h) ==
    /\ hs[h].pc = "enhanced_post"
    /\ \E outcome \in {"error", "refused", "created"} :
          LET k == cacheKey(hs[h].user, adkAppName)
          IN  /\ posts' = [posts EXCEPT ![k] = posts[k] + 1]
              /\ sessions' = IF outcome = "created"
                             THEN sessions \cup {[user |-> hs[h].user, app |-> adkAppName,
                                                  id |-> BrowserId(hs[h].user)]}
                             ELSE sessions
              /\ Becomes(h, IF outcome = "error"
                            THEN [hs[h] EXCEPT !.pc = "enhanced_run"]
                            ELSE [hs[h] EXCEPT !.adk = BrowserId(hs[h].user),
                                               !.pc = "enhanced_cache"])
    /\ UNCHANGED <<catalogVars, ingestVars, priceVars, useAgentsGateway, migrationPercent,
                   adkAppName, reAppName, adkSessions, nextId>>

enhanced_cache(h) ==
    /\ hs[h].pc = "enhanced_cache"
    /\ Cache(h, reAppName, "enhanced_run")

\* The agent is asked and the chat response written.
enhanced_run(h) ==
    /\ hs[h].pc = "enhanced_run"
    /\ Becomes(h, Written(hs[h]))
    /\ UNCHANGED <<catalogVars, ingestVars, priceVars, FrontRest>>

\* The percentages of the model.
Percents == {0, 50, 100}

InitFront ==
    /\ CatalogOff
    /\ IngestOff
    /\ PriceOff
    /\ useAgentsGateway \in BOOLEAN
    /\ migrationPercent \in Percents
    /\ adkAppName \in Apps
    /\ reAppName \in Apps
    /\ adkSessions = [k \in CacheKeys |-> EmptyId]
    /\ posts = [k \in CacheKeys |-> 0]
    /\ sessions = {}
    /\ nextId = 1
    /\ hs = [h \in Handlers |-> IdleHandler]

NextFront ==
    \E h \in Handlers :
       \/ Arrive(h)
       \/ chatBotHandler(h)
       \/ handleChatWithAgents(h)
       \/ chat_lookup(h)
       \/ chat_post(h)
       \/ chat_cache(h)
       \/ chat_run(h)
       \/ legacyChatBotHandler(h)
       \/ analyzeCartWithAgent(h)
       \/ cart_post(h)
       \/ cart_cache(h)
       \/ enhancedChatBotHandler(h)
       \/ enhanced_lookup(h)
       \/ enhanced_post(h)
       \/ enhanced_cache(h)
       \/ enhanced_run(h)

SpecFront == InitFront /\ [][NextFront]_vars

(***************************************************************************)
(* Properties of the frontend.                                             *)
(***************************************************************************)
\* C27: handleChatWithAgents and analyzeCartWithAgent send a session-creation
\* request for a user and app only while no session id is cached for them,
\* the gateway is never made to create two sessions for one user and app,
\* and a cached id is never replaced by another.
C27_OneSessionPerKey ==
    /\ [](\A u \in Users, a \in Apps :
             Cardinality({ s \in sessions : s.user = u /\ s.app = a
                                            /\ s.id.by = "gateway" }) <= 1)
    /\ [][\A h \in Handlers :
             (hs[h].pc \in {"chat_post", "cart_post"} /\ hs'[h] # hs[h])
             => (adkSessions[cacheKey(hs[h].user, adkAppName)] = EmptyId)]_vars
    /\ [][\A k \in CacheKeys :
             (adkSessions[k] # EmptyId) => (adkSessions'[k] = adkSessions[k])]_vars

\* C28: every id in the session cache is the id of a session the gateway
\* has answered it created for the user and the app of the entry's key.
C28_CachedSessionsWereCreated ==
    \A u \in Users, a \in Apps :
       (adkSessions[cacheKey(u, a)] # EmptyId)
       => ([user |-> u, app |-> a, id |-> adkSessions[cacheKey(u, a)]] \in sessions)

\* C29: with useAgentsGateway set the rollout is monotone in the percentage:
\* a session id routed to the gateway at p is routed at every q from p to
\* 100, none is routed at 0 and all are at 100; without it none is routed.
C29_RolloutIsMonotone ==
    \A s \in SessionIDs :
       LET routed(p) == shouldUseAgentsGateway(
                            [useAgentsGateway |-> useAgentsGateway,
                             migrationPercent |-> p], s)
       IN  /\ \A p, q \in 0..100 : (p <= q /\ routed(p)) => routed(q)
           /\ ~routed(0)
           /\ routed(100) = useAgentsGateway

\* The failures of the gateway after which handleChatWithAgents falls back.
GatewayFailures == {"create session", "parse session", "run request", "run status",
                    "run read", "run decode"}

\* C30: a chat request that handleChatWithAgents handed to
\* legacyChatBotHandler after a failure of the gateway reaches the assistant
\* with the body it arrived with, and exactly one response is written for it.
C30_FallbackForwardsRequest ==
    \A h \in Handlers :
       (hs[h].kind = "chat" /\ hs[h].fail \in GatewayFailures /\ hs[h].pc = "done")
       => (/\ hs[h].legacy.called
           /\ hs[h].legacy.body = hs[h].orig
           /\ hs[h].written = 1)

=============================================================================
